---- MODULE Spec2Model ----
(***************************************************************************)
(* Momento: the local encrypted photo store (lib/db.ts, lib/crypto.ts),    *)
(* the encryption handlers of App.tsx, the backup archive codec            *)
(* (lib/sync.ts) and the auto-backup scheduler (lib/autobackup.ts).        *)
(*                                                                         *)
(* The specifications share the variables:                                 *)
(*   SpecStore    the db module driven by one sequential caller, with      *)
(*                process termination in the middle of a migration;        *)
(*   Spec         the App handlers with their awaits interleaved;          *)
(*   SpecBackup   the scheduler, its timers and the backup executions;     *)
(*   SpecRun      SpecBackup with what each step of performAutoBackup did; *)
(*   SpecCancel   SpecRun with cancelScheduledBackup called on its own;    *)
(*   SpecTimer    the timers of the scheduler and pendingTimer;            *)
(*   SpecLive     a configured session under fair scheduling;              *)
(*   SpecImport   importData applied to archives;                          *)
(*   SpecNames    importData applied to manifest names;                    *)
(*   SpecSync     exportData followed by importData;                       *)
(*   SpecAlbum    deleteAlbum with uploads going on;                       *)
(*   SpecDelete   deleteAlbum with its transaction;                        *)
(*   SpecSanitize sanitizeFileName applied to strings;                     *)
(*   SpecReminder the last-backup time and the backup reminder.            *)
(***************************************************************************)
EXTENDS Integers, Sequences, FiniteSets, TLC

VARIABLES
    photos,        \* IndexedDB object store 'photos': id -> raw record
    albums,        \* IndexedDB object store 'albums': id -> record
    cryptoConfig,  \* localStorage momento-crypto-*: NoConfig or the config
    currentKey,    \* crypto.ts currentKey: NoKey or a derived key
    mig,           \* the running encryptAllPhotos / decryptAllPhotos call
    readResult,    \* what the last getPhoto / getAllPhotos / getPhotosByAlbum gave
    orig,          \* history: id -> the plaintext photo handed to the store
    encOps,        \* history: id -> number of encryptPhoto results written
    resume,        \* history: the interrupted encryptAllPhotos run and its re-run
    appState,      \* App.tsx appState
    inflight,      \* addPhoto calls awaiting their db.put: id -> record to put
    unlock,        \* history: what the last handleUnlock calls returned
    clock,         \* Date.now(), in ms
    timers,        \* the host's live setTimeout timers: [id, at]
    pendingTimer,  \* autobackup.ts pendingTimer: 0 (null) or a timer id
    lastBackupTime,\* autobackup.ts lastBackupTime
    dirHandle,     \* the 'backup-dir' slot of the handle store holds a handle
    perm,          \* what queryPermission answers for the handle
    lastBackupIso, \* localStorage momento-last-backup: 0 (none) or a time
    runs,          \* performAutoBackup calls started by timers: pc -> how many
    manual,        \* the performAutoBackup call of 'backup now': its pc, or idle
    burst,         \* history: the scheduleAutoBackup calls since the last firing
    lastSuccess,   \* history: when the last successful backup completed, 0: none
    ran,           \* history: what the last step of performAutoBackup did
    archive,       \* the ZIP file handed to importData
    imp,           \* history: the calls of importData, the last result, the store before it
    exp,           \* history: the last exportData call and the albums it met
    del,           \* the running deleteAlbum call: its id and the photos it read
    san,           \* a call of sanitizeFileName: its argument and what it returned
    showBackupReminder  \* App.tsx showBackupReminder

storeVars == <<photos, albums, cryptoConfig, currentKey, mig, readResult,
               orig, encOps, resume>>

appVars == <<appState, inflight, unlock>>

backupVars == <<clock, timers, pendingTimer, lastBackupTime, dirHandle, perm,
                lastBackupIso, runs, manual, burst, lastSuccess, ran>>

vars == <<photos, albums, cryptoConfig, currentKey, mig, readResult,
          orig, encOps, resume, appState, inflight, unlock,
          clock, timers, pendingTimer, lastBackupTime, dirHandle, perm,
          lastBackupIso, runs, manual, burst, lastSuccess, ran, archive, imp, exp,
          del, san, showBackupReminder>>

importVars == <<archive, imp, exp>>

\* What the actions of one specification leave alone.
albumVars == <<del>>

pureVars == <<san>>

reminderVars == <<showBackupReminder>>

outsideStore == <<appVars, backupVars, importVars, albumVars, pureVars, reminderVars>>
outsideApp == <<backupVars, importVars, albumVars, pureVars, reminderVars>>
outsideBackup == <<storeVars, appVars, importVars, albumVars, pureVars, reminderVars>>

----------------------------------------------------------------------------
(* Bounds of the model.                                                    *)

MaxPhotos == 2
MaxAlbums == 1

PhotoIds == 1..MaxPhotos
AlbumIds == 1..MaxAlbums
Passwords == {"pw1", "pw2"}

\* generateSalt draws 16 random bytes: one of MaxSalts values.
MaxSalts == 1
Salts == 1..MaxSalts

----------------------------------------------------------------------------
(* lib/crypto.ts                                                           *)

NoKey == <<>>

VERIFICATION_TEXT == "momento-verified"

\* PBKDF2 is deterministic in (password, salt) and injective for the model.
deriveKey(password, salt) == <<password, salt>>

Keys == {deriveKey(pw, salt) : pw \in Passwords, salt \in Salts}

\* A payload is a Blob (key = NoKey) or the ArrayBuffer that encryptBlob made of
\* it: nonce and AES-GCM ciphertext under `key`. The nonce is random and takes
\* no part in any decision of the code, so the model carries none.
Blob(bytes) == [key |-> NoKey, bytes |-> bytes]

IsBlob(p) == p.key = NoKey

\* encryptBlob throws without a key, and on an ArrayBuffer (no arrayBuffer()).
encryptBlob(blob, key) ==
    IF key = NoKey \/ ~IsBlob(blob)
    THEN [ok |-> FALSE, val |-> blob]
    ELSE [ok |-> TRUE, val |-> [key |-> key, bytes |-> blob.bytes]]

\* decryptToBlob throws without a key and when AES-GCM authentication fails.
decryptToBlob(data, key) ==
    IF key = NoKey \/ data.key # key
    THEN [ok |-> FALSE, val |-> data]
    ELSE [ok |-> TRUE, val |-> Blob(data.bytes)]

\* createVerification: the marker encrypted under the key (nonce omitted).
createVerification(key) == [key |-> key, bytes |-> VERIFICATION_TEXT]

\* verifyPassword: true when the decryption succeeds and gives the marker; an
\* authentication failure is caught and gives false.
\* Variant: every key passes.
verifyPassword_Any(key, data) == data.bytes = VERIFICATION_TEXT

verifyPassword(key, data) == data.key = key /\ data.bytes = VERIFICATION_TEXT

\* getCryptoConfig() is null when the localStorage items are missing.
NoConfig == [present |-> FALSE, salt |-> 0, verifyData |-> createVerification(NoKey)]

saveCryptoConfig(salt, verifyData) ==
    [present |-> TRUE, salt |-> salt, verifyData |-> verifyData]

\* Variant: reported off whatever is stored.
isEncryptionEnabled_Off(config) == config.present /\ config.salt = 0

isEncryptionEnabled(config) == config.present

----------------------------------------------------------------------------
(* lib/db.ts: the encryption helpers and the readers                       *)

\* Variant: the thumbnail is left as it is.
encryptPhoto_ThumbnailPlain(photo, key) ==
    LET encBlob == encryptBlob(photo.blob, key)
    IN  IF encBlob.ok
        THEN [ok |-> TRUE,
              val |-> [photo EXCEPT !.blob = encBlob.val, !.encrypted = TRUE]]
        ELSE [ok |-> FALSE, val |-> photo]

encryptPhoto(photo, key) ==
    LET encBlob == encryptBlob(photo.blob, key)
        encThumb == encryptBlob(photo.thumbnail, key)
    IN  IF encBlob.ok /\ encThumb.ok
        THEN [ok |-> TRUE,
              val |-> [photo EXCEPT !.blob = encBlob.val,
                                    !.thumbnail = encThumb.val,
                                    !.encrypted = TRUE]]
        ELSE [ok |-> FALSE, val |-> photo]

\* Without a key the record is handed back as stored, ciphertext included.
decryptPhotoRecord(record, key) ==
    IF record.encrypted /\ key # NoKey
    THEN LET blob == decryptToBlob(record.blob, key)
             thumbnail == decryptToBlob(record.thumbnail, key)
         IN  IF blob.ok /\ thumbnail.ok
             THEN [ok |-> TRUE,
                   val |-> [record EXCEPT !.blob = blob.val,
                                          !.thumbnail = thumbnail.val,
                                          !.encrypted = FALSE]]
             ELSE [ok |-> FALSE, val |-> record]
    ELSE [ok |-> TRUE, val |-> record]

\* The readers return arrays sorted by createdAt; the model returns the set.
DecryptEach(records, key) ==
    LET res == {decryptPhotoRecord(r, key) : r \in records}
    IN  IF \A x \in res : x.ok
        THEN [ok |-> TRUE, val |-> {x.val : x \in res}]
        ELSE [ok |-> FALSE, val |-> {}]

Records(store) == {store[i] : i \in DOMAIN store}

getPhoto(store, key, id) ==
    IF id \notin DOMAIN store
    THEN [ok |-> TRUE, val |-> {}]
    ELSE DecryptEach({store[id]}, key)

\* Variant: the reader reports an empty store.
getAllPhotos_Empty(store, key) == [ok |-> TRUE, val |-> {}]

getAllPhotos(store, key) == DecryptEach(Records(store), key)

getPhotosByAlbum(store, key, albumId) ==
    DecryptEach({r \in Records(store) : albumId \in r.albumIds}, key)

\* db.getAll returns the records in key order.
RECURSIVE InIdOrder(_, _)
InIdOrder(store, ids) ==
    IF ids = {} THEN <<>>
    ELSE LET i == CHOOSE x \in ids : \A y \in ids : x <= y
         IN  <<store[i]>> \o InIdOrder(store, ids \ {i})

Put(store, record) == (record.id :> record) @@ store

----------------------------------------------------------------------------
(* lib/db.ts: the migrations.  mig holds the locals of the running call:   *)
(* the filtered snapshot still to do, its length total and the counter     *)
(* done; and, as history, the store the call met, the ids it has written   *)
(* and the calls of onProgress it has made.                                *)

NoMig == [kind |-> "none", status |-> "idle", queue |-> <<>>, done |-> 0,
          total |-> 0, before |-> <<>>, wrote |-> {}, progress |-> <<>>]

NoRead == [op |-> "none", ok |-> TRUE, val |-> {}]

NoResume == [phase |-> "none", key |-> NoKey, ids |-> {}, n |-> 0]

\* encryptAllPhotos up to its loop: getAll, filter(!r.encrypted).
\* Variant: the snapshot is not filtered.
encryptAllPhotosBegin_All(store) ==
    [kind |-> "encrypt", status |-> "running",
     queue |-> InIdOrder(store, DOMAIN store),
     done |-> 0,
     total |-> Cardinality(DOMAIN store),
     before |-> store, wrote |-> {}, progress |-> <<>>]

encryptAllPhotosBegin(store) ==
    [kind |-> "encrypt", status |-> "running",
     queue |-> InIdOrder(store, {i \in DOMAIN store : ~store[i].encrypted}),
     done |-> 0,
     total |-> Cardinality({i \in DOMAIN store : ~store[i].encrypted}),
     before |-> store, wrote |-> {}, progress |-> <<>>]

\* decryptAllPhotos up to its loop: getAll, filter(r.encrypted).
decryptAllPhotosBegin(store) ==
    [kind |-> "decrypt", status |-> "running",
     queue |-> InIdOrder(store, {i \in DOMAIN store : store[i].encrypted}),
     done |-> 0,
     total |-> Cardinality({i \in DOMAIN store : store[i].encrypted}),
     before |-> store, wrote |-> {}, progress |-> <<>>]

\* One turn of the loop of encryptAllPhotos: encryptPhoto, db.put, done++.
EncryptAllStep ==
    /\ mig.kind = "encrypt" /\ mig.status = "running" /\ mig.queue # <<>>
    /\ LET enc == encryptPhoto(Head(mig.queue), currentKey)
       IN  IF enc.ok
           THEN /\ photos' = Put(photos, enc.val)
                /\ encOps' = [encOps EXCEPT ![enc.val.id] = @ + 1]
                /\ mig' = [mig EXCEPT !.queue = Tail(@), !.done = @ + 1,
                                      !.wrote = @ \cup {Head(mig.queue).id},
                                      !.progress = Append(@, <<mig.done + 1, mig.total>>)]
           ELSE /\ mig' = [mig EXCEPT !.status = "threw"]
                /\ UNCHANGED <<photos, encOps>>

\* One turn of the loop of decryptAllPhotos: decryptPhotoRecord, db.put, done++.
DecryptAllStep ==
    /\ mig.kind = "decrypt" /\ mig.status = "running" /\ mig.queue # <<>>
    /\ LET dec == decryptPhotoRecord(Head(mig.queue), currentKey)
       IN  IF dec.ok
           THEN /\ photos' = Put(photos, dec.val)
                /\ mig' = [mig EXCEPT !.queue = Tail(@), !.done = @ + 1,
                                      !.wrote = @ \cup {Head(mig.queue).id},
                                      !.progress = Append(@, <<mig.done + 1, mig.total>>)]
           ELSE /\ mig' = [mig EXCEPT !.status = "threw"]
                /\ UNCHANGED photos
    /\ UNCHANGED encOps

----------------------------------------------------------------------------
(* lib/autobackup.ts: the scheduler and performAutoBackup                  *)

MIN_INTERVAL_MS == 30000
DEBOUNCE_MS == 5000

\* Bounds: the clock starts at Epoch and stops MaxTicks ticks later; the host
\* has MaxTimers timer ids; at most MaxRuns executions started by timers are
\* in progress at once; burst.calls counts to MaxBurst.
Epoch == 100000
MaxTicks == 3
MaxTimers == 2
MaxRuns == 1
MaxBurst == 2

TickMs == 2 * DEBOUNCE_MS
Horizon == MaxTicks * TickMs
TimerIds == 1..MaxTimers

Max(a, b) == IF a >= b THEN a ELSE b
Min(a, b) == IF a <= b THEN a ELSE b

\* Where an execution of performAutoBackup stands, by the await it is at.
RunPcs == {"enabled", "perform", "verify", "export", "write"}

\* The pcs inside performAutoBackup; at "enabled" the timer callback awaits
\* isAutoBackupEnabled().
PerformPcs == RunPcs \ {"enabled"}

NoRan == [query |-> "none", prompted |-> FALSE, request |-> "none", cause |-> "none",
          result |-> "none", status |-> "none", open |-> 0]

NoBurst == [calls |-> 0, lastCall |-> 0, expected |-> 0, fires |-> 0, late |-> 0,
            long |-> FALSE, early |-> FALSE, enabled |-> FALSE, started |-> FALSE,
            cancelled |-> FALSE, cancel |-> "none", afterCancel |-> FALSE]

BackupIdle ==
    /\ clock = Epoch
    /\ timers = {}
    /\ pendingTimer = 0
    /\ lastBackupTime = 0
    /\ dirHandle = FALSE
    /\ perm = "prompt"
    /\ lastBackupIso = 0
    /\ runs = [pc \in RunPcs |-> 0]
    /\ manual = "idle"
    /\ burst = NoBurst
    /\ lastSuccess = 0
    /\ ran = NoRan

\* Failed unlock attempts in a row that are followed.
MaxFails == 1

NoDel == [status |-> "idle", id |-> 0, photos |-> {}, dangling |-> {}]

NoSan == [input |-> <<>>, output |-> <<>>, called |-> FALSE]

NoUnlock == [result |-> "none", password |-> "none", fails |-> 0,
             config |-> NoConfig]

AppIdle ==
    /\ appState = "ready"
    /\ inflight = <<>>
    /\ unlock = NoUnlock
    /\ del = NoDel
    /\ san = NoSan
    /\ showBackupReminder = FALSE

NoArchive == [hasMeta |-> FALSE, parses |-> FALSE, version |-> 0,
              hasAlbums |-> FALSE, albums |-> <<>>,
              hasPhotos |-> FALSE, photos |-> <<>>,
              photoFiles |-> <<>>, thumbFiles |-> <<>>]

NoImport == [count |-> 0, status |-> "none", message |-> "none",
             photosImported |-> 0, albumsImported |-> 0,
             before |-> [photos |-> <<>>, albums |-> <<>>]]

NoExport == [count |-> 0, status |-> "none", albums |-> <<>>]

ImportIdle ==
    /\ archive = NoArchive
    /\ imp = NoImport
    /\ exp = NoExport

\* Variant: the pending timer is left armed.
cancelScheduledBackup_Keep(live, pending) ==
    [timers |-> live, pendingTimer |-> pending]

\* clearTimeout(pendingTimer); pendingTimer = null.
cancelScheduledBackup(live, pending) ==
    IF pending # 0
    THEN [timers |-> {t \in live : t.id # pending}, pendingTimer |-> 0]
    ELSE [timers |-> live, pendingTimer |-> pending]

\* delay = Math.max(5_000, MIN_INTERVAL_MS - elapsed)
Delay(now, last) == Max(DEBOUNCE_MS, MIN_INTERVAL_MS - (now - last))

FreeTimerIds(live) == {i \in TimerIds : \A t \in live : t.id # i}

\* scheduleAutoBackup: cancel, compute the delay, setTimeout.
ScheduleAutoBackup ==
    /\ LET c == cancelScheduledBackup(timers, pendingTimer)
       IN  /\ FreeTimerIds(c.timers) # {}
           /\ LET id == CHOOSE i \in FreeTimerIds(c.timers) :
                            \A j \in FreeTimerIds(c.timers) : i <= j
                  at == clock + Delay(clock, lastBackupTime)
              IN  /\ timers' = c.timers \cup {[id |-> id, at |-> at]}
                  /\ pendingTimer' = id
    /\ burst' = [NoBurst EXCEPT
                   !.calls = IF burst.fires = 0 /\ burst.calls >= 1 /\ ~burst.cancelled
                             THEN Min(burst.calls + 1, MaxBurst) ELSE 1,
                   !.lastCall = clock,
                   !.expected = clock + Max(DEBOUNCE_MS,
                                            MIN_INTERVAL_MS - (clock - lastSuccess))]
    /\ UNCHANGED <<clock, lastBackupTime, dirHandle, perm, lastBackupIso, runs,
                   manual, lastSuccess>>
    /\ UNCHANGED outsideBackup

RECURSIVE Sum(_, _)
Sum(f, S) == IF S = {} THEN 0
             ELSE LET x == CHOOSE y \in S : TRUE IN f[x] + Sum(f, S \ {x})

\* The executions of performAutoBackup in progress.
InProgress(timerRuns, manualRun) ==
    Sum(timerRuns, PerformPcs) + (IF manualRun = "idle" THEN 0 ELSE 1)

\* Variant: a callback that leaves pendingTimer as it is.
TimerFire_KeepPending(t) ==
    /\ t \in timers
    /\ t.at <= clock
    /\ timers' = timers \ {t}
    /\ Sum(runs, RunPcs) < MaxRuns
    /\ runs' = [runs EXCEPT !["enabled"] = @ + 1]
    /\ burst' = [burst EXCEPT !.fires = Min(@ + 1, 2),
                              !.late = clock - burst.expected,
                              !.long = burst.expected - burst.lastCall > DEBOUNCE_MS,
                              !.lastCall = 0,
                              !.expected = 0]
    /\ UNCHANGED <<clock, pendingTimer, lastBackupTime, dirHandle, perm, lastBackupIso,
                   manual, lastSuccess>>
    /\ UNCHANGED outsideBackup

\* The timer callback up to its await: pendingTimer = null;
\* await isAutoBackupEnabled().
TimerFire(t) ==
    /\ t \in timers
    /\ t.at <= clock
    /\ timers' = timers \ {t}
    /\ pendingTimer' = 0
    /\ Sum(runs, RunPcs) < MaxRuns
    /\ runs' = [runs EXCEPT !["enabled"] = @ + 1]
    /\ burst' = [burst EXCEPT !.fires = Min(@ + 1, 2),
                              !.late = clock - burst.expected,
                              !.long = burst.expected - burst.lastCall > DEBOUNCE_MS,
                              !.lastCall = 0,
                              !.expected = 0]
    /\ UNCHANGED <<clock, lastBackupTime, dirHandle, perm, lastBackupIso, manual,
                   lastSuccess>>
    /\ UNCHANGED outsideBackup

\* Variant: a callback that returns after its await whatever it read.
RunEnabled_Drop ==
    /\ runs["enabled"] > 0
    /\ runs' = [runs EXCEPT !["enabled"] = @ - 1]
    /\ burst' = [burst EXCEPT !.enabled = dirHandle]
    /\ UNCHANGED <<clock, timers, pendingTimer, lastBackupTime, dirHandle, perm,
                   lastBackupIso, manual, lastSuccess>>
    /\ UNCHANGED outsideBackup

\* The timer callback after its await: if (enabled) performAutoBackup(onStatus).
RunEnabled ==
    /\ runs["enabled"] > 0
    /\ runs' = [pc \in RunPcs |->
                   runs[pc] - (IF pc = "enabled" THEN 1 ELSE 0)
                            + (IF pc = "perform" /\ dirHandle THEN 1 ELSE 0)]
    /\ burst' = [burst EXCEPT !.enabled = dirHandle,
                              !.started = dirHandle,
                              !.early = dirHandle /\ lastSuccess # 0
                                        /\ clock - lastSuccess < MIN_INTERVAL_MS,
                              !.afterCancel = dirHandle /\ burst.cancel # "none"]
    /\ UNCHANGED <<clock, timers, pendingTimer, lastBackupTime, dirHandle, perm,
                   lastBackupIso, manual, lastSuccess>>
    /\ UNCHANGED outsideBackup

\* The 'backup now' button of the settings menu calls performAutoBackup; the
\* button is disabled while its own call is in progress (busy).
ManualBackup ==
    /\ dirHandle
    /\ manual = "idle"
    /\ manual' = "perform"
    /\ UNCHANGED <<clock, timers, pendingTimer, lastBackupTime, dirHandle, perm,
                   lastBackupIso, runs, burst, lastSuccess>>
    /\ UNCHANGED outsideBackup

\* An execution started by the timer or by the button stands at pc.
At(by, pc) == IF by = "manual" THEN manual = pc ELSE runs[pc] > 0

\* It goes on to the next await, or returns (to = "idle").
Move(by, from, to) ==
    IF by = "manual"
    THEN manual' = to /\ UNCHANGED runs
    ELSE /\ runs' = [pc \in RunPcs |->
                        runs[pc] - (IF pc = from THEN 1 ELSE 0)
                                 + (IF pc = to THEN 1 ELSE 0)]
         /\ UNCHANGED manual

\* Variant: a return of false that stamps lastBackupTime.
ReturnFalse_Stamped(by, from) ==
    /\ Move(by, from, "idle")
    /\ lastBackupTime' = clock
    /\ UNCHANGED <<lastBackupIso, lastSuccess>>

\* performAutoBackup returns false: nothing is recorded.
ReturnFalse(by, from) ==
    /\ Move(by, from, "idle")
    /\ UNCHANGED <<lastBackupTime, lastBackupIso, lastSuccess>>

\* It goes on from one await to the next.
GoOn(by, from, to) ==
    /\ Move(by, from, to)
    /\ UNCHANGED <<lastBackupTime, lastBackupIso, lastSuccess>>

\* const handle = await getDirectoryHandle(); if (!handle) return false.
RunGetHandle(by) ==
    /\ At(by, "perform")
    /\ IF dirHandle THEN GoOn(by, "perform", "verify") ELSE ReturnFalse(by, "perform")
    /\ UNCHANGED <<clock, timers, pendingTimer, dirHandle, perm, burst>>
    /\ UNCHANGED outsideBackup

\* What the user, or the host without asking, answers to requestPermission;
\* without a user gesture the call is rejected.
Answers == {"granted", "denied", "throws"}

\* Variant: a verifyPermission that takes any answer to the prompt for a grant.
verifyPermission_Trusting(state, answer) ==
    [query    |-> state,
     prompted |-> state # "granted",
     threw    |-> state # "granted" /\ answer = "throws",
     ok       |-> TRUE,
     state    |-> IF state = "granted" \/ answer = "granted" THEN "granted"
                  ELSE "prompt"]

\* verifyPermission: queryPermission, and requestPermission when the answer is
\* not 'granted'.
verifyPermission(state, answer) ==
    [query    |-> state,
     prompted |-> state # "granted",
     threw    |-> state # "granted" /\ answer = "throws",
     ok       |-> state = "granted" \/ answer = "granted",
     state    |-> IF state = "granted" \/ answer = "granted" THEN "granted"
                  ELSE "prompt"]

\* if (!(await verifyPermission(handle))) { onStatus(...); return false }
\* onStatus('...'); the catch block when requestPermission was rejected.
RunVerify(by, answer) ==
    /\ At(by, "verify")
    /\ LET v == verifyPermission(perm, answer)
       IN  /\ perm' = v.state
           /\ IF v.ok /\ ~v.threw
              THEN GoOn(by, "verify", "export")
              ELSE ReturnFalse(by, "verify")
    /\ UNCHANGED <<clock, timers, pendingTimer, dirHandle, burst>>
    /\ UNCHANGED outsideBackup

\* createBackupBlob(), which may throw.
RunExport(by, ok) ==
    /\ At(by, "export")
    /\ IF ok THEN GoOn(by, "export", "write") ELSE ReturnFalse(by, "export")
    /\ UNCHANGED <<clock, timers, pendingTimer, dirHandle, perm, burst>>
    /\ UNCHANGED outsideBackup

\* How the four awaits of the file write end: all succeed; getFileHandle or
\* createWritable throws; write throws, with the stream open.
WriteOutcomes == {"ok", "open", "write"}

\* getFileHandle, createWritable, write, close; then markBackupDone();
\* lastBackupTime = Date.now(); onStatus; return true. The catch block reports
\* and returns false.
RunWrite(by, outcome) ==
    /\ At(by, "write")
    /\ IF outcome = "ok"
       THEN /\ Move(by, "write", "idle")
            /\ lastBackupIso' = clock
            /\ lastBackupTime' = clock
            /\ lastSuccess' = clock
       ELSE ReturnFalse(by, "write")
    /\ UNCHANGED <<clock, timers, pendingTimer, dirHandle, perm, burst>>
    /\ UNCHANGED outsideBackup

\* setupAutoBackup: the user picks a folder, the handle is stored.
SetupAutoBackup ==
    /\ ~dirHandle
    /\ dirHandle' = TRUE
    /\ perm' = "granted"
    /\ UNCHANGED <<clock, timers, pendingTimer, lastBackupTime, lastBackupIso,
                   runs, manual, burst, lastSuccess>>
    /\ UNCHANGED outsideBackup

\* disableAutoBackup: cancelScheduledBackup(), removeDirectoryHandle().
DisableAutoBackup ==
    /\ dirHandle
    /\ LET c == cancelScheduledBackup(timers, pendingTimer)
       IN  /\ timers' = c.timers
           /\ pendingTimer' = c.pendingTimer
    /\ dirHandle' = FALSE
    /\ burst' = IF pendingTimer # 0 THEN [burst EXCEPT !.cancelled = TRUE] ELSE burst
    /\ UNCHANGED <<clock, lastBackupTime, perm, lastBackupIso, runs, manual,
                   lastSuccess>>
    /\ UNCHANGED outsideBackup

\* A call of the exported cancelScheduledBackup.
CancelScheduledBackup ==
    /\ LET c == cancelScheduledBackup(timers, pendingTimer)
       IN  /\ timers' = c.timers
           /\ pendingTimer' = c.pendingTimer
    /\ burst' = [burst EXCEPT !.cancelled = @ \/ pendingTimer # 0,
                              !.cancel = IF pendingTimer # 0 THEN "cleared" ELSE "noop"]
    /\ UNCHANGED <<clock, lastBackupTime, dirHandle, perm, lastBackupIso, runs,
                   manual, lastSuccess>>
    /\ UNCHANGED outsideBackup

\* The host withdraws the permission on the folder.
RevokePermission ==
    /\ perm = "granted"
    /\ perm' = "prompt"
    /\ UNCHANGED <<clock, timers, pendingTimer, lastBackupTime, dirHandle,
                   lastBackupIso, runs, manual, burst, lastSuccess>>
    /\ UNCHANGED outsideBackup

\* Time passes, up to the next timer that is due: a timer fires at its time.
Tick ==
    /\ clock < Epoch + Horizon
    /\ \A t \in timers : t.at > clock
    /\ LET next == Min(clock + TickMs, Epoch + Horizon)
           dues == {t.at : t \in timers}
       IN  clock' = IF \E d \in dues : d < next
                    THEN CHOOSE d \in dues : \A e \in dues : d <= e
                    ELSE next
    /\ UNCHANGED <<timers, pendingTimer, lastBackupTime, dirHandle, perm,
                   lastBackupIso, runs, manual, burst, lastSuccess>>
    /\ UNCHANGED outsideBackup

InitBackup ==
    /\ photos = <<>>
    /\ albums = <<>>
    /\ cryptoConfig = NoConfig
    /\ currentKey = NoKey
    /\ mig = NoMig
    /\ readResult = NoRead
    /\ orig = <<>>
    /\ encOps = [i \in PhotoIds |-> 0]
    /\ resume = NoResume
    /\ AppIdle
    /\ BackupIdle
    /\ ImportIdle

Starters == {"timer", "manual"}

NextBackup ==
    \/ ScheduleAutoBackup /\ UNCHANGED ran
    \/ \E t \in timers : TimerFire(t) /\ UNCHANGED ran
    \/ RunEnabled /\ UNCHANGED ran
    \/ ManualBackup /\ UNCHANGED ran
    \/ \E by \in Starters : RunGetHandle(by) /\ UNCHANGED ran
    \/ \E by \in Starters, answer \in Answers : RunVerify(by, answer) /\ UNCHANGED ran
    \/ \E by \in Starters, ok \in BOOLEAN : RunExport(by, ok) /\ UNCHANGED ran
    \/ \E by \in Starters, outcome \in WriteOutcomes :
           RunWrite(by, outcome) /\ UNCHANGED ran
    \/ SetupAutoBackup /\ UNCHANGED ran
    \/ DisableAutoBackup /\ UNCHANGED ran
    \/ RevokePermission /\ UNCHANGED ran
    \/ Tick /\ UNCHANGED ran

SpecBackup == InitBackup /\ [][NextBackup]_vars

\* C5: at most one execution of performAutoBackup is in progress at any time.
C5_OneBackupAtATime == InProgress(runs, manual) <= 1

C7_MinInterval == burst.fires >= 1 => ~burst.early

\* C26: while no directory handle is stored, that is from the completion of
\* disableAutoBackup to the next setupAutoBackup, no backup file is written
\* and neither lastBackupTime nor the persisted time of the last backup
\* changes.
C26_NoBackupAfterDisable ==
    [][~dirHandle => UNCHANGED <<lastSuccess, lastBackupTime, lastBackupIso>>]_vars

----------------------------------------------------------------------------
(* SpecRun: the executions of performAutoBackup with their history: what   *)
(* the two permission calls answered, what was reported through onStatus,  *)
(* what was returned and whether a stream was left open.                   *)

\* Bound: the clock of SpecRun stops RunTicks ticks after Epoch.
RunTicks == 1

\* if (!handle) return false: before the try block, nothing is reported.
NoteGetHandle ==
    IF dirHandle THEN NoRan
    ELSE [NoRan EXCEPT !.cause = "nohandle", !.result = "false"]

\* verifyPermission and the three ways on from it: the catch block, onStatus
\* and go on, onStatus and return false.
NoteVerify(answer) ==
    LET v == verifyPermission(perm, answer)
        seen == [NoRan EXCEPT !.query = v.query, !.prompted = v.prompted,
                              !.request = IF v.prompted THEN answer ELSE "none"]
    IN  IF v.threw
        THEN [seen EXCEPT !.cause = "request", !.result = "false", !.status = "failed"]
        ELSE IF v.ok
        THEN [seen EXCEPT !.status = "running"]
        ELSE [seen EXCEPT !.cause = "denied", !.result = "false", !.status = "denied"]

\* createBackupBlob throws: the catch block.
NoteExport(ok) ==
    IF ok THEN NoRan
    ELSE [NoRan EXCEPT !.cause = "export", !.result = "false", !.status = "failed"]

\* The file write: return true after close(), or the catch block, which does
\* not close the stream that createWritable opened.
NoteWrite(outcome) ==
    IF outcome = "ok"
    THEN [NoRan EXCEPT !.result = "true", !.status = "done"]
    ELSE [NoRan EXCEPT !.cause = "write", !.result = "false", !.status = "failed",
                       !.open = IF outcome = "write" THEN 1 ELSE 0]

NextRun ==
    \/ ScheduleAutoBackup /\ ran' = NoRan
    \/ \E t \in timers : TimerFire(t) /\ ran' = NoRan
    \/ RunEnabled /\ ran' = NoRan
    \/ ManualBackup /\ ran' = NoRan
    \/ \E by \in Starters : RunGetHandle(by) /\ ran' = NoteGetHandle
    \/ \E by \in Starters, answer \in Answers :
           RunVerify(by, answer) /\ ran' = NoteVerify(answer)
    \/ \E by \in Starters, ok \in BOOLEAN : RunExport(by, ok) /\ ran' = NoteExport(ok)
    \/ \E by \in Starters, outcome \in WriteOutcomes :
           RunWrite(by, outcome) /\ ran' = NoteWrite(outcome)
    \/ SetupAutoBackup /\ ran' = NoRan
    \/ DisableAutoBackup /\ ran' = NoRan
    \/ RevokePermission /\ ran' = NoRan
    \/ Tick /\ clock' <= Epoch + RunTicks * TickMs /\ ran' = NoRan

SpecRun == InitBackup /\ [][NextRun]_vars

\* C17: after performAutoBackup has returned, true or false, no writable stream
\* that it opened is left open.
C17_StreamClosed == ran.result \in {"true", "false"} => ran.open = 0

\* An execution of performAutoBackup arrives at pc in this step.
Entered(pc) == runs'[pc] > runs[pc] \/ (manual' = pc /\ manual # pc)

\* C18: requestPermission is called only after queryPermission answered
\* something other than 'granted'; an execution goes on to the export only
\* when one of the two calls answered 'granted', and to the file write only
\* from the export.
C18_GrantBeforeExport ==
    [][/\ ran'.prompted => ran'.query # "granted"
       /\ Entered("export") => ran'.query = "granted" \/ ran'.request = "granted"
       /\ Entered("write") => runs'["export"] < runs["export"] \/ manual = "export"]_vars

\* C18 witness: the query did not answer 'granted', the prompt did, and the
\* execution has gone on to the export.
C18_Witness ==
    /\ ran.query = "prompt"
    /\ ran.prompted
    /\ ran.request = "granted"
    /\ At("manual", "export") \/ At("timer", "export")

\* Why an execution gave up inside the try block.
Failures == {"denied", "request", "export", "write"}

----------------------------------------------------------------------------
(* SpecCancel: SpecRun with calls of cancelScheduledBackup.                *)

NextCancel ==
    \/ NextRun
    \/ CancelScheduledBackup /\ ran' = NoRan

SpecCancel == InitBackup /\ [][NextCancel]_vars

\* C20: from a call of cancelScheduledBackup to the next call of
\* scheduleAutoBackup no timer is pending or live, and no timer callback
\* starts performAutoBackup.
C20_NoBackupAfterCancel ==
    /\ burst.cancel # "none" => pendingTimer = 0 /\ timers = {}
    /\ ~burst.afterCancel

----------------------------------------------------------------------------
(* SpecTimer: the timer handle under calls of scheduleAutoBackup,          *)
(* cancelScheduledBackup and disableAutoBackup and under firings, with the *)
(* backups the firings start.                                              *)

NextTimer ==
    \/ ScheduleAutoBackup /\ UNCHANGED ran
    \/ CancelScheduledBackup /\ UNCHANGED ran
    \/ SetupAutoBackup /\ UNCHANGED ran
    \/ DisableAutoBackup /\ UNCHANGED ran
    \/ \E t \in timers : TimerFire(t) /\ UNCHANGED ran
    \/ RunEnabled /\ UNCHANGED ran
    \/ RunGetHandle("timer") /\ UNCHANGED ran
    \/ \E answer \in Answers : RunVerify("timer", answer) /\ UNCHANGED ran
    \/ \E ok \in BOOLEAN : RunExport("timer", ok) /\ UNCHANGED ran
    \/ \E outcome \in WriteOutcomes : RunWrite("timer", outcome) /\ UNCHANGED ran
    \/ Tick /\ UNCHANGED ran

SpecTimer == InitBackup /\ [][NextTimer]_vars

\* C24: at most one timer is armed, and pendingTimer is non-null exactly when
\* one is, and then it is that timer's id.
C24_OneTimer ==
    /\ Cardinality(timers) <= 1
    /\ pendingTimer # 0 <=> timers # {}
    /\ \A t \in timers : t.id = pendingTimer

\* C24 witness: a timer has fired and its backup has completed, and of the
\* calls of scheduleAutoBackup made since, one timer is armed.
C24_Witness ==
    /\ lastSuccess # 0
    /\ burst.calls >= 2
    /\ burst.fires = 0
    /\ Cardinality(timers) = 1
    /\ pendingTimer # 0

----------------------------------------------------------------------------
(* SpecLive: the scheduler in a session that starts with auto-backup       *)
(* configured and in which it is not disabled.  The host fires a due       *)
(* timer, time passes, and every awaited promise settles.                  *)

InitLive ==
    /\ photos = <<>>
    /\ albums = <<>>
    /\ cryptoConfig = NoConfig
    /\ currentKey = NoKey
    /\ mig = NoMig
    /\ readResult = NoRead
    /\ orig = <<>>
    /\ encOps = [i \in PhotoIds |-> 0]
    /\ resume = NoResume
    /\ AppIdle
    /\ ImportIdle
    /\ clock = Epoch
    /\ timers = {}
    /\ pendingTimer = 0
    /\ lastBackupTime = 0
    /\ dirHandle = TRUE
    /\ perm \in {"granted", "prompt"}
    /\ lastBackupIso \in {0, Epoch - MIN_INTERVAL_MS}
    /\ runs = [pc \in RunPcs |-> 0]
    /\ manual = "idle"
    /\ burst = NoBurst
    /\ lastSuccess = 0
    /\ ran = NoRan

\* The clock of SpecLive stops RunTicks ticks after Epoch; a call of
\* scheduleAutoBackup is followed when its timer is due by then.
LiveEnd == Epoch + RunTicks * TickMs

LiveSchedule ==
    /\ clock + Delay(clock, lastBackupTime) <= LiveEnd
    /\ ScheduleAutoBackup
    /\ UNCHANGED ran

LiveFire == \E t \in timers : TimerFire(t) /\ UNCHANGED ran

LiveEnabled == RunEnabled /\ UNCHANGED ran

LiveTick == Tick /\ clock' <= LiveEnd /\ UNCHANGED ran

LiveGetHandle(by) == RunGetHandle(by) /\ UNCHANGED ran

LiveVerify(by) == \E answer \in Answers : RunVerify(by, answer) /\ UNCHANGED ran

LiveExport(by) == \E ok \in BOOLEAN : RunExport(by, ok) /\ UNCHANGED ran

LiveWrite(by) == \E outcome \in WriteOutcomes : RunWrite(by, outcome) /\ UNCHANGED ran

NextLive ==
    \/ LiveSchedule
    \/ LiveFire
    \/ LiveEnabled
    \/ LiveTick
    \/ ManualBackup /\ UNCHANGED ran
    \/ \E by \in Starters : LiveGetHandle(by)
    \/ \E by \in Starters : LiveVerify(by)
    \/ \E by \in Starters : LiveExport(by)
    \/ \E by \in Starters : LiveWrite(by)
    \/ RevokePermission /\ UNCHANGED ran

SpecLive ==
    /\ InitLive
    /\ [][NextLive]_vars
    /\ WF_vars(LiveFire)
    /\ WF_vars(LiveEnabled)
    /\ WF_vars(LiveTick)
    /\ \A by \in Starters :
          /\ WF_vars(LiveGetHandle(by))
          /\ WF_vars(LiveVerify(by))
          /\ WF_vars(LiveExport(by))
          /\ WF_vars(LiveWrite(by))

\* C27: when the calls of scheduleAutoBackup have stopped, the timer of the
\* last call fires and its callback starts performAutoBackup.
C27_BackupEventuallyStarts == <>[](burst.calls >= 1 => burst.started)

\* C27 witness: the callback of a call made while the backup of the button
\* was running has started a second execution beside it.
C27_Witness ==
    /\ burst.calls >= 1
    /\ burst.started
    /\ manual # "idle"
    /\ runs["perform"] = 1

----------------------------------------------------------------------------
(* SpecStore: one caller of the db module.                                 *)

StoredAlbum(a) == [id |-> a, name |-> <<"a">>, icon |-> <<"i">>, createdAt |-> a]

PlainRecord(i, albumIds) ==
    [id |-> i, blob |-> Blob(i), thumbnail |-> Blob(i + 100), name |-> <<"p">>,
     albumIds |-> albumIds, createdAt |-> i, width |-> 4, height |-> 3,
     encrypted |-> FALSE]

\* The keys of the passwords under the salt of the one stored configuration.
StoreKeys == {deriveKey(pw, 1) : pw \in Passwords}

InitStore ==
    /\ \E S \in SUBSET PhotoIds :
            photos = [i \in S |-> PlainRecord(i, AlbumIds \cap {i})]
    /\ albums = [a \in AlbumIds |-> StoredAlbum(a)]
    /\ cryptoConfig = NoConfig
    /\ currentKey = NoKey
    /\ mig = NoMig
    /\ readResult = NoRead
    /\ orig = photos
    /\ encOps = [i \in PhotoIds |-> 0]
    /\ resume = NoResume
    /\ AppIdle
    /\ BackupIdle
    /\ ImportIdle

\* setKey(key): the caller unlocks with a password, or locks.
SetKey(key) ==
    /\ mig.status # "running"
    /\ currentKey # key
    /\ currentKey' = key
    /\ readResult' = NoRead
    /\ UNCHANGED <<photos, albums, cryptoConfig, mig, orig, encOps, resume>>
    /\ UNCHANGED outsideStore

\* The records of the store that a run of the kind has to rewrite.
NotInTarget(kind, store) ==
    {i \in DOMAIN store : store[i].encrypted = (kind = "decrypt")}

\* C25: a run of encryptAllPhotos or decryptAllPhotos has called the progress
\* sink once per record written, with done = 1, 2, ... and total the number
\* of records that were not in the target state when it started; it has
\* written only such records, each once; and it returns with done = total.
C25_ProgressInOrder ==
    mig.status \in {"running", "returned"} =>
        /\ mig.total = Cardinality(NotInTarget(mig.kind, mig.before))
        /\ mig.progress = [k \in 1..mig.done |-> <<k, mig.total>>]
        /\ mig.wrote \subseteq NotInTarget(mig.kind, mig.before)
        /\ Cardinality(mig.wrote) = mig.done
        /\ mig.status = "returned" => mig.done = mig.total

\* C25 witness: a run over a store holding records in the target state and
\* MaxPhotos - 1 that are not has returned.
C25_Witness ==
    /\ mig.status = "returned"
    /\ mig.total = MaxPhotos - 1
    /\ Len(mig.progress) = mig.total
    /\ Cardinality(DOMAIN mig.before) > mig.total

\* The caller invokes encryptAllPhotos.
EncryptAllStart ==
    /\ mig.status # "running"
    /\ mig' = encryptAllPhotosBegin(photos)
    /\ resume' =
         IF resume.phase = "interrupted" /\ currentKey = resume.key
         THEN [resume EXCEPT !.phase = "rerun"]
         ELSE [phase |-> "first", key |-> currentKey,
               ids |-> {i \in DOMAIN photos : ~photos[i].encrypted}, n |-> 0]
    /\ encOps' = IF resume'.phase = "first" THEN [i \in PhotoIds |-> 0] ELSE encOps
    /\ readResult' = NoRead
    /\ UNCHANGED <<photos, albums, cryptoConfig, currentKey, orig>>
    /\ UNCHANGED outsideStore

EncryptAllTurn ==
    /\ EncryptAllStep
    /\ readResult' = NoRead
    /\ UNCHANGED <<albums, cryptoConfig, currentKey, orig, resume>>
    /\ UNCHANGED outsideStore

\* encryptAllPhotos returns done.
EncryptAllReturn ==
    /\ mig.kind = "encrypt" /\ mig.status = "running" /\ mig.queue = <<>>
    /\ mig' = [mig EXCEPT !.status = "returned"]
    /\ resume' = IF resume.phase = "rerun"
                 THEN [resume EXCEPT !.phase = "done"]
                 ELSE NoResume
    /\ readResult' = NoRead
    /\ UNCHANGED <<photos, albums, cryptoConfig, currentKey, orig, encOps>>
    /\ UNCHANGED outsideStore

\* The caller invokes decryptAllPhotos.
DecryptAllStart ==
    /\ mig.status # "running"
    /\ mig' = decryptAllPhotosBegin(photos)
    /\ resume' = NoResume
    /\ readResult' = NoRead
    /\ UNCHANGED <<photos, albums, cryptoConfig, currentKey, orig, encOps>>
    /\ UNCHANGED outsideStore

DecryptAllTurn ==
    /\ DecryptAllStep
    /\ readResult' = NoRead
    /\ UNCHANGED <<albums, cryptoConfig, currentKey, orig, resume>>
    /\ UNCHANGED outsideStore

\* decryptAllPhotos returns done.
DecryptAllReturn ==
    /\ mig.kind = "decrypt" /\ mig.status = "running" /\ mig.queue = <<>>
    /\ mig' = [mig EXCEPT !.status = "returned"]
    /\ readResult' = NoRead
    /\ UNCHANGED <<photos, albums, cryptoConfig, currentKey, orig, encOps, resume>>
    /\ UNCHANGED outsideStore

\* The process terminates in the middle of a migration: the locals of the call
\* and the session key are gone, the object store keeps what was written.
Interrupt ==
    /\ mig.status = "running"
    /\ mig' = [NoMig EXCEPT !.kind = mig.kind, !.status = "interrupted"]
    /\ currentKey' = NoKey
    /\ resume' =
         IF mig.kind = "encrypt" /\ resume.phase \in {"first", "rerun"}
         THEN [resume EXCEPT !.phase = "interrupted",
                             !.n = IF resume.phase = "first" THEN mig.done ELSE @]
         ELSE NoResume
    /\ readResult' = NoRead
    /\ UNCHANGED <<photos, albums, cryptoConfig, orig, encOps>>
    /\ UNCHANGED outsideStore

ReadGetPhoto(id) ==
    /\ mig.status # "running"
    /\ LET r == getPhoto(photos, currentKey, id)
       IN  readResult' = [op |-> "getPhoto", ok |-> r.ok, val |-> r.val]
    /\ UNCHANGED <<photos, albums, cryptoConfig, currentKey, mig, orig, encOps, resume>>
    /\ UNCHANGED outsideStore

ReadGetAllPhotos ==
    /\ mig.status # "running"
    /\ LET r == getAllPhotos(photos, currentKey)
       IN  readResult' = [op |-> "getAllPhotos", ok |-> r.ok, val |-> r.val]
    /\ UNCHANGED <<photos, albums, cryptoConfig, currentKey, mig, orig, encOps, resume>>
    /\ UNCHANGED outsideStore

ReadGetPhotosByAlbum(albumId) ==
    /\ mig.status # "running"
    /\ LET r == getPhotosByAlbum(photos, currentKey, albumId)
       IN  readResult' = [op |-> "getPhotosByAlbum", ok |-> r.ok, val |-> r.val]
    /\ UNCHANGED <<photos, albums, cryptoConfig, currentKey, mig, orig, encOps, resume>>
    /\ UNCHANGED outsideStore

NextStore ==
    \/ \E key \in StoreKeys \cup {NoKey} : SetKey(key)
    \/ EncryptAllStart
    \/ EncryptAllTurn
    \/ EncryptAllReturn
    \/ DecryptAllStart
    \/ DecryptAllTurn
    \/ DecryptAllReturn
    \/ Interrupt
    \/ \E id \in PhotoIds : ReadGetPhoto(id)
    \/ ReadGetAllPhotos
    \/ \E a \in AlbumIds : ReadGetPhotosByAlbum(a)

SpecStore == InitStore /\ [][NextStore]_vars

----------------------------------------------------------------------------
(* Spec: App.tsx.  The handlers run on one thread and give way at their    *)
(* awaits, so an upload started earlier goes on while encryption is set up *)
(* or removed: nothing makes one handler wait for another.                 *)

NewPhoto(i, albumIds) == PlainRecord(i, albumIds)

Remove(f, i) == [j \in DOMAIN f \ {i} |-> f[j]]

Init ==
    /\ photos = <<>>
    /\ albums = [a \in AlbumIds |-> StoredAlbum(a)]
    /\ cryptoConfig = NoConfig
    /\ currentKey = NoKey
    /\ mig = NoMig
    /\ readResult = NoRead
    /\ orig = <<>>
    /\ encOps = [i \in PhotoIds |-> 0]
    /\ resume = NoResume
    /\ AppIdle
    /\ BackupIdle
    /\ ImportIdle

\* handleAddFiles: a worker takes a file and awaits processImage.
UploadStart(id, albumIds) ==
    /\ appState = "ready"
    /\ id \notin DOMAIN photos \cup DOMAIN inflight
    /\ inflight' = (id :> [stage |-> "processing", record |-> NewPhoto(id, albumIds)])
                      @@ inflight
    /\ orig' = (id :> NewPhoto(id, albumIds)) @@ orig
    /\ UNCHANGED <<photos, albums, cryptoConfig, currentKey, mig, readResult,
                   encOps, resume, appState>>
    /\ unlock' = NoUnlock
    /\ UNCHANGED outsideApp

\* addPhoto without a key: db.put of the photo as it is.
AddPhotoPlain(id) ==
    /\ id \in DOMAIN inflight
    /\ inflight[id].stage = "processing"
    /\ currentKey = NoKey
    /\ photos' = Put(photos, inflight[id].record)
    /\ inflight' = Remove(inflight, id)
    /\ UNCHANGED <<albums, cryptoConfig, currentKey, mig, readResult, orig,
                   encOps, resume, appState>>
    /\ unlock' = NoUnlock
    /\ UNCHANGED outsideApp

\* addPhoto with a key: await encryptPhoto(photo), the put comes after it.
AddPhotoEncrypt(id) ==
    /\ id \in DOMAIN inflight
    /\ inflight[id].stage = "processing"
    /\ currentKey # NoKey
    /\ inflight' = [inflight EXCEPT ![id] =
                       [stage |-> "encrypted",
                        record |-> encryptPhoto(@.record, currentKey).val]]
    /\ UNCHANGED <<photos, albums, cryptoConfig, currentKey, mig, readResult,
                   orig, encOps, resume, appState>>
    /\ unlock' = NoUnlock
    /\ UNCHANGED outsideApp

\* addPhoto with a key: db.put of the encrypted record.
AddPhotoPut(id) ==
    /\ id \in DOMAIN inflight
    /\ inflight[id].stage = "encrypted"
    /\ photos' = Put(photos, inflight[id].record)
    /\ inflight' = Remove(inflight, id)
    /\ UNCHANGED <<albums, cryptoConfig, currentKey, mig, readResult, orig,
                   encOps, resume, appState>>
    /\ unlock' = NoUnlock
    /\ UNCHANGED outsideApp

\* handleStartSetupEncryption, from the settings of a store without encryption.
StartSetupEncryption ==
    /\ appState = "ready"
    /\ ~isEncryptionEnabled(cryptoConfig)
    /\ mig.status # "running"
    /\ appState' = "setup-encryption"
    /\ UNCHANGED <<photos, albums, cryptoConfig, currentKey, mig, readResult,
                   orig, encOps, resume, inflight>>
    /\ unlock' = NoUnlock
    /\ UNCHANGED outsideApp

\* handleSetupEncryption up to the loop of encryptAllPhotos.
SetupEncryption(password, salt) ==
    /\ appState = "setup-encryption"
    /\ mig.status # "running"
    /\ LET key == deriveKey(password, salt)
       IN  /\ cryptoConfig' = saveCryptoConfig(salt, createVerification(key))
           /\ currentKey' = key
    /\ mig' = encryptAllPhotosBegin(photos)
    /\ encOps' = [i \in PhotoIds |-> 0]
    /\ UNCHANGED <<photos, albums, readResult, orig, resume, appState, inflight>>
    /\ unlock' = NoUnlock
    /\ UNCHANGED outsideApp

SetupTurn ==
    /\ appState = "setup-encryption"
    /\ EncryptAllStep
    /\ UNCHANGED <<albums, cryptoConfig, currentKey, readResult, orig, resume,
                   appState, inflight>>
    /\ unlock' = NoUnlock
    /\ UNCHANGED outsideApp

\* handleSetupEncryption after encryptAllPhotos: setAppState('ready').
SetupFinish ==
    /\ appState = "setup-encryption"
    /\ mig.kind = "encrypt" /\ mig.status = "running" /\ mig.queue = <<>>
    /\ mig' = [mig EXCEPT !.status = "returned", !.before = <<>>,
                          !.wrote = {}, !.progress = <<>>]
    /\ appState' = "ready"
    /\ UNCHANGED <<photos, albums, cryptoConfig, currentKey, readResult, orig,
                   encOps, resume, inflight>>
    /\ unlock' = NoUnlock
    /\ UNCHANGED outsideApp

\* handleUnlock.
Unlock(password) ==
    /\ appState = "locked"
    /\ isEncryptionEnabled(cryptoConfig)
    /\ LET key == deriveKey(password, cryptoConfig.salt)
           valid == verifyPassword(key, cryptoConfig.verifyData)
       IN  /\ valid \/ unlock.fails < MaxFails
           /\ IF valid
              THEN currentKey' = key /\ appState' = "ready"
              ELSE UNCHANGED <<currentKey, appState>>
           /\ unlock' = [result |-> IF valid THEN "true" ELSE "false",
                         password |-> password,
                         fails |-> IF valid THEN unlock.fails ELSE unlock.fails + 1,
                         config |-> cryptoConfig]
    /\ UNCHANGED <<photos, albums, cryptoConfig, mig, readResult, orig, encOps,
                   resume, inflight>>
    /\ UNCHANGED outsideApp

\* handleRemoveEncryption up to the loop of decryptAllPhotos; the settings menu
\* calls it without awaiting it and closes.
RemoveEncryption ==
    /\ appState = "ready"
    /\ isEncryptionEnabled(cryptoConfig)
    /\ mig.status # "running"
    /\ mig' = decryptAllPhotosBegin(photos)
    /\ UNCHANGED <<photos, albums, cryptoConfig, currentKey, readResult, orig,
                   encOps, resume, appState, inflight>>
    /\ unlock' = NoUnlock
    /\ UNCHANGED outsideApp

RemoveTurn ==
    /\ appState = "ready"
    /\ DecryptAllStep
    /\ UNCHANGED <<albums, cryptoConfig, currentKey, readResult, orig, resume,
                   appState, inflight>>
    /\ unlock' = NoUnlock
    /\ UNCHANGED outsideApp

\* handleRemoveEncryption after decryptAllPhotos: removeCryptoConfig, setKey(null).
RemoveFinish ==
    /\ appState = "ready"
    /\ mig.kind = "decrypt" /\ mig.status = "running" /\ mig.queue = <<>>
    /\ mig' = [mig EXCEPT !.status = "returned", !.before = <<>>,
                          !.wrote = {}, !.progress = <<>>]
    /\ cryptoConfig' = NoConfig
    /\ currentKey' = NoKey
    /\ UNCHANGED <<photos, albums, readResult, orig, encOps, resume, appState,
                   inflight>>
    /\ unlock' = NoUnlock
    /\ UNCHANGED outsideApp

\* The page is reloaded: module state is gone, the mount effect sets appState.
Reload ==
    /\ currentKey' = NoKey
    /\ mig' = NoMig
    /\ inflight' = <<>>
    /\ appState' = IF isEncryptionEnabled(cryptoConfig) THEN "locked" ELSE "ready"
    /\ UNCHANGED <<photos, albums, cryptoConfig, readResult, orig, encOps, resume>>
    /\ unlock' = NoUnlock
    /\ UNCHANGED outsideApp

Next ==
    \/ \E id \in PhotoIds, al \in {{}} \cup {{a} : a \in AlbumIds} : UploadStart(id, al)
    \/ \E id \in PhotoIds : AddPhotoPlain(id)
    \/ \E id \in PhotoIds : AddPhotoEncrypt(id)
    \/ \E id \in PhotoIds : AddPhotoPut(id)
    \/ StartSetupEncryption
    \/ \E pw \in Passwords, salt \in Salts : SetupEncryption(pw, salt)
    \/ SetupTurn
    \/ SetupFinish
    \/ \E pw \in Passwords : Unlock(pw)
    \/ RemoveEncryption
    \/ RemoveTurn
    \/ RemoveFinish
    \/ Reload

Spec == Init /\ [][Next]_vars

\* C2: while the CryptoConfig is absent no stored record is tagged encrypted,
\* whatever photo writes interleave with encryption setup and removal.
C2_NoConfigNoEncryptedRecord ==
    ~isEncryptionEnabled(cryptoConfig) => \A i \in DOMAIN photos : ~photos[i].encrypted

\* The password of the last setup, as the stored verification record has it.
SetupPassword(config) == config.verifyData.key[1]

\* C14: handleUnlock with another password than the one of setup returns
\* false and leaves the key null, the app locked and the config as it was;
\* with the password of setup it returns true, sets the key derived from it
\* and moves the app to ready, however many attempts failed before.
C14_UnlockVerifiesPassword ==
    unlock.result # "none" =>
        /\ cryptoConfig = unlock.config
        /\ (unlock.result = "true") <=> (unlock.password = SetupPassword(cryptoConfig))
        /\ unlock.result = "false" => currentKey = NoKey /\ appState = "locked"
        /\ unlock.result = "true" =>
              /\ currentKey = deriveKey(unlock.password, cryptoConfig.salt)
              /\ appState = "ready"

\* C14 witness: MaxFails attempts failed and the next one, with the password
\* of setup, unlocked the app.
C14_Witness ==
    /\ unlock.result = "true"
    /\ unlock.fails = MaxFails
    /\ appState = "ready"
    /\ currentKey # NoKey

\* C15: with the config present and the app ready, the active key is the one
\* the stored verification record was made with; right after a reload and
\* after encryption removal has completed no key is active.
C15_ReadyImpliesUnlocked ==
    /\ (cryptoConfig.present /\ appState = "ready") =>
          /\ currentKey # NoKey
          /\ verifyPassword(currentKey, cryptoConfig.verifyData)
    /\ appState = "locked" => currentKey = NoKey
    /\ (mig.kind = "decrypt" /\ mig.status = "returned") => currentKey = NoKey

\* C15 witness: the app is ready again after a reload and an unlock, with
\* encrypted photos in the store.
C15_Witness ==
    /\ cryptoConfig.present
    /\ appState = "ready"
    /\ unlock.result = "true"
    /\ \E i \in DOMAIN photos : photos[i].encrypted

\* C29: with the config present, the app ready and no encryptAllPhotos or
\* decryptAllPhotos run in progress, every stored record is tagged encrypted,
\* also after a setup cut by a reload and an unlock with the password of setup.
C29_EnabledMeansAllEncrypted ==
    (isEncryptionEnabled(cryptoConfig) /\ appState = "ready" /\ mig.status # "running")
        => \A i \in DOMAIN photos : photos[i].encrypted

----------------------------------------------------------------------------
(* Claims settled under SpecStore.                                         *)

HasCiphertext(r) == ~IsBlob(r.blob) \/ ~IsBlob(r.thumbnail)

\* C1: a read of the store made while no key is active never returns a record
\* of ciphertext: getPhoto, getAllPhotos and getPhotosByAlbum fail instead.
C1_ReadWithoutKeyFails ==
    (readResult.op # "none" /\ currentKey = NoKey /\ readResult.ok)
        => \A r \in readResult.val : ~HasCiphertext(r)

\* C3: encryptAllPhotos interrupted after N of its M plaintext records and run
\* again to its end under the same key, with no other write in between: the M
\* records are tagged encrypted, each was encrypted once, under that key, no
\* record is lost or added, and reading them with the key gives back the
\* photos as they were.
C3_ResumedEncryptAll ==
    resume.phase = "done" =>
        /\ DOMAIN photos = DOMAIN orig
        /\ \A i \in resume.ids :
              /\ photos[i].encrypted
              /\ encOps[i] = 1
              /\ photos[i].blob = [key |-> resume.key, bytes |-> orig[i].blob.bytes]
              /\ photos[i].thumbnail =
                    [key |-> resume.key, bytes |-> orig[i].thumbnail.bytes]
              /\ getPhoto(photos, resume.key, i) = [ok |-> TRUE, val |-> {orig[i]}]

\* C3 witness: a run was interrupted after one of two records and the re-run
\* has returned.
C3_Witness ==
    /\ resume.phase = "done"
    /\ resume.n > 0
    /\ resume.n < Cardinality(resume.ids)

\* C4: when decryptAllPhotos has returned, no record is tagged encrypted and
\* every record holds its original plaintext payloads.
C4_DecryptAllLeavesPlaintext ==
    (mig.kind = "decrypt" /\ mig.status = "returned")
        => \A i \in DOMAIN photos : ~photos[i].encrypted /\ photos[i] = orig[i]


----------------------------------------------------------------------------
(* lib/sanitize.ts.  A string is a sequence of one-character strings.      *)

\* /<[^>]*>/g: from a "<" to the first ">" after it, every such stretch.
RECURSIVE stripHtmlTags(_)
stripHtmlTags(input) ==
    IF input = <<>> THEN <<>>
    ELSE IF Head(input) = "<" /\ \E j \in 2..Len(input) : input[j] = ">"
         THEN LET close == CHOOSE j \in 2..Len(input) :
                               /\ input[j] = ">"
                               /\ \A k \in 2..(j - 1) : input[k] # ">"
              IN  stripHtmlTags(SubSeq(input, close + 1, Len(input)))
         ELSE <<Head(input)>> \o stripHtmlTags(Tail(input))

UnsafeChars == {"<", ">", ":", "\"", "/", "\\", "|", "?", "*"}
ControlChars == {"\t", "\n"}
WhiteSpace == {" ", "\t", "\n"}

IsSafeChar(c) == c \notin UnsafeChars
IsPrintable(c) == c \notin ControlChars

\* /\.\./g: pairs of dots, left to right.
RECURSIVE RemoveDotDot(_)
RemoveDotDot(str) ==
    IF Len(str) < 2 THEN str
    ELSE IF str[1] = "." /\ str[2] = "."
         THEN RemoveDotDot(SubSeq(str, 3, Len(str)))
         ELSE <<Head(str)>> \o RemoveDotDot(Tail(str))

RECURSIVE TrimStart(_)
TrimStart(str) ==
    IF str # <<>> /\ Head(str) \in WhiteSpace THEN TrimStart(Tail(str)) ELSE str

RECURSIVE TrimEnd(_)
TrimEnd(str) ==
    IF str # <<>> /\ str[Len(str)] \in WhiteSpace
    THEN TrimEnd(SubSeq(str, 1, Len(str) - 1))
    ELSE str

Trim(str) == TrimEnd(TrimStart(str))

sanitizeFileName(name) ==
    Trim(SelectSeq(RemoveDotDot(SelectSeq(stripHtmlTags(name), IsSafeChar)),
                   IsPrintable))

\* A "<" with a ">" somewhere after it.
HasTag(str) == \E i \in DOMAIN str, j \in DOMAIN str : i < j /\ str[i] = "<" /\ str[j] = ">"

\* The length importData cuts an album name to.
NAME_MAX == 50

\* String.prototype.slice(0, n)
Slice(str, n) == SubSeq(str, 1, Min(Len(str), n))

----------------------------------------------------------------------------
(* SpecSanitize: sanitizeFileName called on the strings of at most MaxLen  *)
(* characters over Alphabet.                                               *)

MaxLen == 3

\* A letter, the dot, a control character, the angle brackets, a path
\* separator and the space.
Alphabet == {"a", ".", "\t", "<", ">", "/", " "}

Strings == UNION {[1..n -> Alphabet] : n \in 0..MaxLen}

InitSanitize ==
    /\ photos = <<>>
    /\ albums = <<>>
    /\ cryptoConfig = NoConfig
    /\ currentKey = NoKey
    /\ mig = NoMig
    /\ readResult = NoRead
    /\ orig = <<>>
    /\ encOps = [i \in PhotoIds |-> 0]
    /\ resume = NoResume
    /\ appState = "ready"
    /\ inflight = <<>>
    /\ unlock = NoUnlock
    /\ del = NoDel
    /\ showBackupReminder = FALSE
    /\ BackupIdle
    /\ ImportIdle
    /\ \E input \in Strings : san = [NoSan EXCEPT !.input = input]

SanitizeFileName ==
    /\ ~san.called
    /\ san' = [san EXCEPT !.output = sanitizeFileName(san.input), !.called = TRUE]
    /\ UNCHANGED <<storeVars, appVars, backupVars, importVars, albumVars,
                   reminderVars>>

NextSanitize == SanitizeFileName

SpecSanitize == InitSanitize /\ [][NextSanitize]_vars

\* str holds part at some place.
Contains(str, part) ==
    \E i \in 1..(Len(str) - Len(part) + 1) : SubSeq(str, i, i + Len(part) - 1) = part

\* C22: what sanitizeFileName returns holds no "..", no control character,
\* none of the unsafe characters and no tag.
C22_SanitizedFileName ==
    san.called =>
        /\ ~Contains(san.output, <<".", ".">>)
        /\ \A i \in DOMAIN san.output :
               san.output[i] \notin ControlChars \cup UnsafeChars
        /\ ~HasTag(san.output)

----------------------------------------------------------------------------
(* lib/sync.ts: importData                                                 *)

\* db.ts addPhoto: encrypt when a key is active, then put.
addPhoto(store, photo, key) ==
    IF key = NoKey
    THEN [ok |-> TRUE, val |-> Put(store, photo)]
    ELSE LET enc == encryptPhoto(photo, key)
         IN  IF enc.ok
             THEN [ok |-> TRUE, val |-> Put(store, enc.val)]
             ELSE [ok |-> FALSE, val |-> store]

\* The album loop: ids are tested against the snapshot taken before it.
RECURSIVE ImportAlbums(_, _, _)
ImportAlbums(list, existingAlbumIds, acc) ==
    IF list = <<>> THEN acc
    ELSE LET album == Head(list)
             sanitizedAlbum == [album EXCEPT
                                   !.name = Slice(stripHtmlTags(album.name), NAME_MAX),
                                   !.icon = stripHtmlTags(album.icon)]
         IN  ImportAlbums(Tail(list), existingAlbumIds,
                 IF album.id \notin existingAlbumIds
                 THEN [albums |-> Put(acc.albums, sanitizedAlbum),
                       albumsImported |-> acc.albumsImported + 1]
                 ELSE acc)

\* The record importData builds for a photo of the manifest.
ImportedPhoto(photoMeta, zip) ==
    [id |-> photoMeta.id,
     blob |-> zip.photoFiles[photoMeta.id],
     thumbnail |-> zip.thumbFiles[photoMeta.id],
     name |-> photoMeta.name,
     albumIds |-> photoMeta.albumIds,
     createdAt |-> photoMeta.createdAt,
     width |-> photoMeta.width,
     height |-> photoMeta.height,
     encrypted |-> IF "encrypted" \in DOMAIN photoMeta
                   THEN photoMeta.encrypted ELSE FALSE]

Added(acc, added) ==
    IF added.ok
    THEN [ok |-> TRUE, photos |-> added.val,
          photosImported |-> acc.photosImported + 1]
    ELSE [acc EXCEPT !.ok = FALSE]

\* Variant: only the primary entry is required; the thumbnail falls back to it.
ImportPhotoStep_PrimaryOnly(rawMeta, existingPhotoIds, zip, key, acc) ==
    LET id == rawMeta.id
        photoMeta == [rawMeta EXCEPT !.name = sanitizeFileName(@)]
        patched == [zip EXCEPT !.thumbFiles =
                        IF id \in DOMAIN @ THEN @ ELSE (id :> zip.photoFiles[id]) @@ @]
    IN  IF id \in existingPhotoIds \/ id \notin DOMAIN zip.photoFiles
        THEN acc
        ELSE Added(acc, addPhoto(acc.photos, ImportedPhoto(photoMeta, patched), key))

\* One turn of the photo loop: skip an id of the snapshot, skip a photo
\* lacking one of its two entries, otherwise addPhoto.
ImportPhotoStep(rawMeta, existingPhotoIds, zip, key, acc) ==
    LET photoMeta == [rawMeta EXCEPT !.name = sanitizeFileName(@)]
        id == photoMeta.id
    IN  IF id \in existingPhotoIds
        THEN acc
        ELSE IF id \notin DOMAIN zip.photoFiles \/ id \notin DOMAIN zip.thumbFiles
        THEN acc
        ELSE Added(acc, addPhoto(acc.photos, ImportedPhoto(photoMeta, zip), key))

RECURSIVE ImportPhotos(_, _, _, _, _)
ImportPhotos(list, existingPhotoIds, zip, key, acc) ==
    IF list = <<>> \/ ~acc.ok THEN acc
    ELSE ImportPhotos(Tail(list), existingPhotoIds, zip, key,
                      ImportPhotoStep(Head(list), existingPhotoIds, zip, key, acc))

Outcome(status, message, photoStore, albumStore, nPhotos, nAlbums) ==
    [status |-> status, message |-> message,
     photos |-> photoStore, albums |-> albumStore,
     photosImported |-> nPhotos, albumsImported |-> nAlbums]

\* importData as a whole: the outcome and the stores it leaves.
importData(zip, photoStore, albumStore, key) ==
    IF ~zip.hasMeta
    THEN Outcome("error", "not a Momento backup", photoStore, albumStore, 0, 0)
    ELSE IF ~zip.parses
    THEN Outcome("error", "SyntaxError", photoStore, albumStore, 0, 0)
    ELSE
    LET doneAlbums == ImportAlbums(IF zip.hasAlbums THEN zip.albums ELSE <<>>,
                                   DOMAIN albumStore,
                                   [albums |-> albumStore, albumsImported |-> 0])
        existingPhotos == getAllPhotos(photoStore, key)
    IN  IF ~existingPhotos.ok
        THEN Outcome("error", "decryption failed", photoStore, doneAlbums.albums, 0, 0)
        ELSE IF ~zip.hasPhotos
        THEN Outcome("error", "TypeError", photoStore, doneAlbums.albums, 0, 0)
        ELSE
        LET donePhotos == ImportPhotos(zip.photos,
                                       {p.id : p \in existingPhotos.val},
                                       zip, key,
                                       [ok |-> TRUE, photos |-> photoStore,
                                        photosImported |-> 0])
        IN  IF donePhotos.ok
            THEN Outcome("ok", "none", donePhotos.photos, doneAlbums.albums,
                         donePhotos.photosImported, doneAlbums.albumsImported)
            ELSE Outcome("error", "encryption failed", donePhotos.photos,
                         doneAlbums.albums, 0, 0)

MaxList == 2
MaxImports == 2

\* ExportMetadata.version
FORMAT_VERSION == 2

Versions == {FORMAT_VERSION - 1, FORMAT_VERSION}

\* Names as a hand-edited manifest may hold them: markup, path characters.
ArchName(pos) ==
    IF pos % 2 = 1 THEN <<"<", "b", ">", "x">> ELSE <<" ", "y", ".", ".", "/">>

ArchAlbum(id, pos) ==
    [id |-> id, name |-> ArchName(pos), icon |-> <<"<", "i", ">", "z">>,
     createdAt |-> id]

ArchPhoto(id, pos) ==
    [id |-> id, name |-> ArchName(pos), albumIds |-> {}, createdAt |-> id,
     width |-> 4, height |-> 3]

IdLists(ids) == UNION {[1..n -> ids] : n \in 0..MaxList}

\* The one entry an archive may lack.
Gaps ==
    {[id |-> 0, kind |-> "none"]}
        \cup {[id |-> i, kind |-> k] : i \in PhotoIds, k \in {"photo", "thumb"}}

Files(kind, gap, offset) ==
    [i \in PhotoIds \ (IF gap.kind = kind THEN {gap.id} ELSE {}) |-> Blob(i + offset)]

Manifest(version, hasAlbums, albumIds, hasPhotos, photoIds, gap) ==
    [hasMeta |-> TRUE, parses |-> TRUE, version |-> version,
     hasAlbums |-> hasAlbums,
     albums |-> [k \in DOMAIN albumIds |-> ArchAlbum(albumIds[k], k)],
     hasPhotos |-> hasPhotos,
     photos |-> [k \in DOMAIN photoIds |-> ArchPhoto(photoIds[k], k)],
     photoFiles |-> Files("photo", gap, 200),
     thumbFiles |-> Files("thumb", gap, 300)]

Archives ==
    {NoArchive, [NoArchive EXCEPT !.hasMeta = TRUE]}
        \cup {Manifest(v, TRUE, al, TRUE, pl, gap) :
                v \in Versions, al \in IdLists(AlbumIds),
                pl \in IdLists(PhotoIds), gap \in Gaps}
        \cup {Manifest(v, FALSE, <<>>, TRUE, pl, gap) :
                v \in Versions, pl \in IdLists(PhotoIds), gap \in Gaps}
        \cup {Manifest(v, TRUE, al, FALSE, <<>>, [id |-> 0, kind |-> "none"]) :
                v \in Versions, al \in IdLists(AlbumIds)}
        \cup {Manifest(v, FALSE, <<>>, FALSE, <<>>, [id |-> 0, kind |-> "none"]) : v \in Versions}

ImportData ==
    /\ imp.count < MaxImports
    /\ LET out == importData(archive, photos, albums, currentKey)
       IN  /\ photos' = out.photos
           /\ albums' = out.albums
           /\ imp' = [count |-> imp.count + 1,
                      status |-> out.status, message |-> out.message,
                      photosImported |-> out.photosImported,
                      albumsImported |-> out.albumsImported,
                      before |-> [photos |-> photos, albums |-> albums]]
    /\ UNCHANGED <<cryptoConfig, currentKey, mig, readResult, orig, encOps, resume>>
    /\ UNCHANGED <<archive, exp, appVars, backupVars, albumVars, pureVars, reminderVars>>

\* The store the import meets: empty or holding a record and the albums, in
\* plaintext, or encrypted with the key active.
InitImport ==
    /\ \E key \in {NoKey} \cup StoreKeys, S \in {{}, {1}}, A \in {{}, AlbumIds} :
        /\ currentKey = key
        /\ cryptoConfig = IF key = NoKey THEN NoConfig
                          ELSE saveCryptoConfig(key[2], createVerification(key))
        /\ photos = [i \in S |-> IF key = NoKey THEN PlainRecord(i, {})
                                 ELSE encryptPhoto(PlainRecord(i, {}), key).val]
        /\ albums = [a \in A |-> StoredAlbum(a)]
        /\ imp = [NoImport EXCEPT !.before = [photos |-> photos, albums |-> albums]]
    /\ archive \in Archives
    /\ exp = NoExport
    /\ mig = NoMig
    /\ readResult = NoRead
    /\ orig = <<>>
    /\ encOps = [i \in PhotoIds |-> 0]
    /\ resume = NoResume
    /\ AppIdle
    /\ BackupIdle

NextImport == ImportData

SpecImport == InitImport /\ [][NextImport]_vars

Stores == [photos |-> photos, albums |-> albums]

Kept(before, after) ==
    \A i \in DOMAIN before : i \in DOMAIN after /\ after[i] = before[i]

\* C8: an import leaves every album and photo whose id existed before it as
\* it was, and an import that follows an import of the same archive writes
\* nothing and, when it returns, returns zero counts.
C8_ImportIdempotent ==
    /\ imp.count >= 1 =>
        /\ Kept(imp.before.photos, photos)
        /\ Kept(imp.before.albums, albums)
    /\ imp.count >= 2 =>
        /\ Stores = imp.before
        /\ imp.status = "ok" => imp.photosImported = 0 /\ imp.albumsImported = 0

\* C8 witness: the first import wrote photos and albums beside existing
\* records and the second import of the same archive has returned.
C8_Witness ==
    /\ imp.count = 2
    /\ imp.status = "ok"
    /\ Cardinality(DOMAIN photos) = MaxPhotos
    /\ Cardinality(DOMAIN albums) = MaxAlbums
    /\ \E i \in DOMAIN photos : photos[i].blob.bytes = i + 200
    /\ \E i \in DOMAIN photos : photos[i].blob.bytes = i

\* C9: an archive without a manifest, or whose manifest carries a version
\* other than FORMAT_VERSION, is rejected with the "not a backup" error and
\* nothing is written.
C9_RejectsUnknownVersion ==
    (imp.count >= 1 /\ (~archive.hasMeta \/ (archive.parses /\ archive.version # FORMAT_VERSION)))
        => /\ imp.status = "error"
           /\ imp.message = "not a Momento backup"
           /\ Stores = imp.before

\* C10: a manifest that does not parse, or lacks the album list or the photo
\* list, ends the import in an error with the store as it was before.
C10_MalformedManifestWritesNothing ==
    (imp.count >= 1 /\ archive.hasMeta
        /\ (~archive.parses \/ ~archive.hasAlbums \/ ~archive.hasPhotos))
        => /\ imp.status = "error"
           /\ Stores = imp.before

WellFormed(zip) == zip.hasMeta /\ zip.parses /\ zip.hasPhotos

Complete(zip, id) == id \in DOMAIN zip.photoFiles /\ id \in DOMAIN zip.thumbFiles

\* C11: an import of a well-formed archive returns normally; a new photo
\* lacking its primary or its thumbnail entry gets no record and is not
\* counted, the other new photos are written and counted, and every record
\* written holds both payloads of the archive.
C11_PartialPhotoSkipped ==
    (imp.count >= 1 /\ WellFormed(archive)) =>
        LET old == DOMAIN imp.before.photos
            new == {k \in DOMAIN archive.photos : archive.photos[k].id \notin old}
        IN  /\ imp.status = "ok"
            /\ \A k \in new :
                  archive.photos[k].id \in DOMAIN photos
                      <=> Complete(archive, archive.photos[k].id)
            /\ imp.photosImported =
                  Cardinality({k \in new : Complete(archive, archive.photos[k].id)})
            /\ \A i \in DOMAIN photos \ old :
                  /\ Complete(archive, i)
                  /\ photos[i].blob.bytes = archive.photoFiles[i].bytes
                  /\ photos[i].thumbnail.bytes = archive.thumbFiles[i].bytes

\* C11 witness: an import skipped a new photo lacking an entry and wrote
\* another new photo of the same archive.
C11_Witness ==
    /\ imp.count = 1
    /\ imp.status = "ok"
    /\ imp.photosImported >= 1
    /\ \E k \in DOMAIN archive.photos :
          /\ archive.photos[k].id \notin DOMAIN imp.before.photos
          /\ ~Complete(archive, archive.photos[k].id)
          /\ archive.photos[k].id \notin DOMAIN photos

\* C28: the counts an import returns are the numbers of records it added:
\* photosImported is the growth of the photo store and albumsImported the
\* growth of the album store, also for a manifest listing an id twice.
C28_CountsAreRecordsAdded ==
    (imp.count = 1 /\ imp.status = "ok") =>
        /\ imp.photosImported =
              Cardinality(DOMAIN photos) - Cardinality(DOMAIN imp.before.photos)
        /\ imp.albumsImported =
              Cardinality(DOMAIN albums) - Cardinality(DOMAIN imp.before.albums)

----------------------------------------------------------------------------
(* SpecNames: importData on archives of one album and one photo whose      *)
(* manifest names are drawn from ManifestNames.                            *)

LongName == [i \in 1..(NAME_MAX + 1) |-> "x"]

\* Names of a hand-edited manifest: plain, a tag, tags inside tags, a name
\* longer than NAME_MAX with and without a tag.
ManifestNames ==
    {<<"p">>,
     <<"<", "b", ">", "x">>,
     <<"<", "<", "b", ">", "i", ">", "x">>,
     <<"<", "s", "<", "b", ">", "c", ">">>,
     <<"a", ">", "<", "b">>,
     LongName,
     <<"<", "b", ">">> \o LongName}

InitNames ==
    /\ \E key \in {NoKey} \cup StoreKeys :
        /\ currentKey = key
        /\ cryptoConfig = IF key = NoKey THEN NoConfig
                          ELSE saveCryptoConfig(key[2], createVerification(key))
    /\ photos = <<>>
    /\ albums = <<>>
    /\ imp = NoImport
    /\ \E an \in ManifestNames, pn \in ManifestNames :
          archive = [Manifest(FORMAT_VERSION, TRUE, <<1>>, TRUE, <<1>>,
                              [id |-> 0, kind |-> "none"])
                       EXCEPT !.albums[1].name = an, !.photos[1].name = pn]
    /\ exp = NoExport
    /\ mig = NoMig
    /\ readResult = NoRead
    /\ orig = <<>>
    /\ encOps = [i \in PhotoIds |-> 0]
    /\ resume = NoResume
    /\ AppIdle
    /\ BackupIdle

NextNames == ImportData

SpecNames == InitNames /\ [][NextNames]_vars

\* C21: every album name and every photo name that importData has written is
\* free of tags and at most NAME_MAX characters long.
C21_ImportedNamesSanitized ==
    imp.count >= 1 =>
        /\ \A a \in DOMAIN albums :
               ~HasTag(albums[a].name) /\ Len(albums[a].name) <= NAME_MAX
        /\ \A i \in DOMAIN photos :
               ~HasTag(photos[i].name) /\ Len(photos[i].name) <= NAME_MAX

----------------------------------------------------------------------------
(* lib/sync.ts: exportData, and the round trip through a fresh store       *)

KeyCode(key) == (IF key[1] = "pw1" THEN 1 ELSE 2) + 2 * key[2]

\* The bytes a payload puts in a ZIP entry: a Blob's content, or the
\* ArrayBuffer of ciphertext as it is.
FileBytes(payload) ==
    IF IsBlob(payload) THEN payload.bytes
    ELSE 1000 * KeyCode(payload.key) + payload.bytes

\* photos.map(({ blob, thumbnail, ...rest }) => rest)
Rest(p) ==
    [id |-> p.id, name |-> p.name, albumIds |-> p.albumIds,
     createdAt |-> p.createdAt, width |-> p.width, height |-> p.height,
     encrypted |-> p.encrypted]

\* getAllPhotos sorts by createdAt, newest first.
RECURSIVE NewestFirst(_)
NewestFirst(records) ==
    IF records = {} THEN <<>>
    ELSE LET p == CHOOSE x \in records : \A y \in records : x.createdAt >= y.createdAt
         IN  <<p>> \o NewestFirst(records \ {p})

\* getAllAlbums sorts by createdAt, oldest first.
RECURSIVE getAllAlbums(_)
getAllAlbums(records) ==
    IF records = {} THEN <<>>
    ELSE LET a == CHOOSE x \in records : \A y \in records : x.createdAt <= y.createdAt
         IN  <<a>> \o getAllAlbums(records \ {a})

Of(records, id) == CHOOSE p \in records : p.id = id

exportData(photoStore, albumStore, key) ==
    LET read == getAllPhotos(photoStore, key)
        list == NewestFirst(read.val)
    IN  IF ~read.ok
        THEN [ok |-> FALSE, val |-> NoArchive]
        ELSE [ok |-> TRUE,
              val |-> [hasMeta |-> TRUE, parses |-> TRUE, version |-> FORMAT_VERSION,
                       hasAlbums |-> TRUE,
                       albums |-> getAllAlbums(Records(albumStore)),
                       hasPhotos |-> TRUE,
                       photos |-> [k \in DOMAIN list |-> Rest(list[k])],
                       photoFiles |-> [i \in {p.id : p \in read.val} |->
                                          Blob(FileBytes(Of(read.val, i).blob))],
                       thumbFiles |-> [i \in {p.id : p \in read.val} |->
                                          Blob(FileBytes(Of(read.val, i).thumbnail))]]]

\* File names as the file picker may give them, extension removed.
RawFileNames == {<<"p">>, <<"a", ".", "\t", ".", "b">>}

\* handleAddFiles: name: sanitizeFileName(file.name...)
UploadNames == {sanitizeFileName(raw) : raw \in RawFileNames}

StoreForms == {"plain", "encrypted", "locked", "mixed"}

\* A dataset uploaded by the app, stored in plaintext, encrypted with the
\* key active or not, or half migrated.
InitSync ==
    /\ \E S \in SUBSET PhotoIds, A \in {{}, AlbumIds}, form \in StoreForms :
       \E names \in [S -> UploadNames] :
        LET key == CHOOSE k \in StoreKeys : TRUE
            plain == [i \in S |-> [PlainRecord(i, A \cap {i}) EXCEPT !.name = names[i]]]
            first == {i \in S : \A j \in S : i <= j}
        IN  /\ orig = plain
            /\ photos = [i \in S |->
                            IF form = "plain" \/ (form = "mixed" /\ i \notin first)
                            THEN plain[i]
                            ELSE encryptPhoto(plain[i], key).val]
            /\ albums = [a \in A |-> StoredAlbum(a)]
            /\ currentKey = IF form \in {"plain", "locked"} THEN NoKey ELSE key
            /\ cryptoConfig = IF form = "plain" THEN NoConfig
                              ELSE saveCryptoConfig(key[2], createVerification(key))
    /\ mig = NoMig
    /\ readResult = NoRead
    /\ encOps = [i \in PhotoIds |-> 0]
    /\ resume = NoResume
    /\ AppIdle
    /\ BackupIdle
    /\ ImportIdle

\* handleExport: exportData, the archive is the downloaded file, then
\* markBackupDone(); the catch block reports and records nothing.
ExportData ==
    /\ exp.count = 0
    /\ LET out == exportData(photos, albums, currentKey)
       IN  /\ archive' = out.val
           /\ exp' = [count |-> 1,
                      status |-> IF out.ok THEN "ok" ELSE "error",
                      albums |-> albums]
           /\ lastBackupIso' = IF out.ok THEN clock ELSE lastBackupIso
    /\ UNCHANGED <<clock, timers, pendingTimer, lastBackupTime, dirHandle, perm,
                   runs, manual, burst, lastSuccess>>
    /\ UNCHANGED <<storeVars, imp, appVars, albumVars, pureVars, reminderVars>>

\* The archive is taken to a browser with no data, with or without a key.
FreshStore ==
    /\ exp.count = 1 /\ imp.count = 0
    /\ photos # <<>> \/ albums # <<>> \/ currentKey # NoKey
    /\ photos' = <<>>
    /\ albums' = <<>>
    /\ \E key \in {NoKey} \cup StoreKeys :
        /\ currentKey' = key
        /\ cryptoConfig' = IF key = NoKey THEN NoConfig
                           ELSE saveCryptoConfig(key[2], createVerification(key))
    /\ UNCHANGED <<mig, readResult, orig, encOps, resume>>
    /\ UNCHANGED <<importVars, appVars, backupVars, albumVars, pureVars, reminderVars>>

NextSync ==
    \/ ExportData /\ UNCHANGED ran
    \/ FreshStore
    \/ exp.count = 1 /\ ImportData

SpecSync == InitSync /\ [][NextSync]_vars

\* C12: the archive exportData makes of a store equals the archive it makes
\* of the plaintext store of the same photos and albums, whichever records
\* are stored as ciphertext, and its manifest holds no payload field.
C12_ExportIsPlaintext ==
    exp.status = "ok" =>
        /\ archive = exportData(orig, exp.albums, NoKey).val
        /\ \A k \in DOMAIN archive.photos :
              DOMAIN archive.photos[k] \cap {"blob", "thumbnail"} = {}

\* C13: an export imported into an empty store gives the albums and the
\* photos of the exported store, metadata and payloads alike.
C13_RoundTrip ==
    (exp.status = "ok" /\ imp.count = 1
        /\ imp.before = [photos |-> <<>>, albums |-> <<>>])
        => /\ imp.status = "ok"
           /\ albums = exp.albums
           /\ getAllPhotos(photos, currentKey) = [ok |-> TRUE, val |-> Records(orig)]
           /\ imp.photosImported = Cardinality(DOMAIN orig)
           /\ imp.albumsImported = Cardinality(DOMAIN exp.albums)

----------------------------------------------------------------------------
(* lib/db.ts: deleteAlbum, with uploads going on                           *)

\* A store of photos of the albums, in plaintext or encrypted with the key
\* active.
InitAlbum ==
    /\ \E S \in SUBSET PhotoIds, key \in {NoKey} \cup StoreKeys :
        /\ orig = [i \in S |-> PlainRecord(i, AlbumIds)]
        /\ photos = [i \in S |-> IF key = NoKey THEN orig[i]
                                 ELSE encryptPhoto(orig[i], key).val]
        /\ currentKey = key
        /\ cryptoConfig = IF key = NoKey THEN NoConfig
                          ELSE saveCryptoConfig(key[2], createVerification(key))
    /\ albums = [a \in AlbumIds |-> StoredAlbum(a)]
    /\ mig = NoMig
    /\ readResult = NoRead
    /\ encOps = [i \in PhotoIds |-> 0]
    /\ resume = NoResume
    /\ AppIdle
    /\ BackupIdle
    /\ ImportIdle

\* deleteAlbum up to db.transaction: getPhotosByAlbum(id), a read of its own.
DeleteAlbumRead(id) ==
    /\ del.status # "read"
    /\ id \in DOMAIN albums
    /\ LET read == getPhotosByAlbum(photos, currentKey, id)
       IN  del' = IF read.ok
                  THEN [status |-> "read", id |-> id, photos |-> read.val,
                        dangling |-> {}]
                  ELSE [status |-> "threw", id |-> id, photos |-> {},
                        dangling |-> {}]
    /\ UNCHANGED <<storeVars, appVars, backupVars, importVars, pureVars, reminderVars>>

WithoutAlbum(photo, id) == [photo EXCEPT !.albumIds = @ \ {id}]

\* The puts of the loop, of the photos as they were read.
RECURSIVE PutAll(_, _, _, _)
PutAll(store, toPut, id, key) ==
    IF toPut = {} THEN [ok |-> TRUE, val |-> store]
    ELSE LET photo == CHOOSE x \in toPut : TRUE
             put == addPhoto(store, WithoutAlbum(photo, id), key)
         IN  IF put.ok THEN PutAll(put.val, toPut \ {photo}, id, key) ELSE put

Referring(store, id) == {i \in DOMAIN store : id \in store[i].albumIds}

\* The transaction over both stores: the puts and the delete commit
\* together.  With a key the loop awaits encryptPhoto inside the
\* transaction: it has committed by then (inactive) or is still active.
DeleteAlbumCommit(active) ==
    /\ del.status = "read"
    /\ LET puts == PutAll(photos, del.photos, del.id, currentKey)
           failed == ~puts.ok \/ (currentKey # NoKey /\ del.photos # {} /\ ~active)
       IN  IF failed
           THEN /\ del' = [del EXCEPT !.status = "threw"]
                /\ UNCHANGED <<photos, albums>>
           ELSE /\ photos' = puts.val
                /\ albums' = Remove(albums, del.id)
                /\ del' = [del EXCEPT !.status = "done",
                                      !.dangling = Referring(puts.val, del.id)]
    /\ UNCHANGED <<cryptoConfig, currentKey, mig, readResult, orig, encOps, resume>>
    /\ UNCHANGED <<appVars, backupVars, importVars, pureVars, reminderVars>>

NextAlbum ==
    \/ \E id \in AlbumIds : DeleteAlbumRead(id)
    \/ \E active \in BOOLEAN : DeleteAlbumCommit(active)
    \/ \E id \in PhotoIds, al \in {{}} \cup {{a} : a \in AlbumIds} : UploadStart(id, al)
    \/ \E id \in PhotoIds : AddPhotoPlain(id)
    \/ \E id \in PhotoIds : AddPhotoEncrypt(id)
    \/ \E id \in PhotoIds : AddPhotoPut(id)
    \/ \E id \in AlbumIds : ReadGetPhotosByAlbum(id)
    \/ ReadGetAllPhotos

SpecAlbum == InitAlbum /\ [][NextAlbum]_vars

\* C16: when deleteAlbum(id) has committed, the album is gone and no photo
\* of the store refers to it, whatever addPhoto ran between its steps.
C16_DeleteAlbumIsAUnit ==
    del.status = "done" => del.id \notin DOMAIN albums /\ del.dangling = {}

----------------------------------------------------------------------------
(* SpecDelete: deleteAlbum called by one caller, nothing else going on, on *)
(* a store of photos in some of the albums.                                *)

\* The albums of SpecDelete: one more than AlbumIds, so that a photo of the
\* deleted album is in another album too.
DeleteAlbumIds == 1..(MaxAlbums + 1)

\* The store is in plaintext, encrypted with the key active, or encrypted
\* with no key active (before unlock).
InitDelete ==
    /\ \E S \in SUBSET PhotoIds, key \in StoreKeys,
          form \in {"plain", "encrypted", "locked"} :
        /\ \E al \in [S -> SUBSET DeleteAlbumIds] :
              orig = [i \in S |-> PlainRecord(i, al[i])]
        /\ photos = [i \in S |-> IF form = "plain" THEN orig[i]
                                 ELSE encryptPhoto(orig[i], key).val]
        /\ currentKey = IF form = "encrypted" THEN key ELSE NoKey
        /\ cryptoConfig = IF form = "plain" THEN NoConfig
                          ELSE saveCryptoConfig(key[2], createVerification(key))
    /\ albums = [a \in DeleteAlbumIds |-> StoredAlbum(a)]
    /\ mig = NoMig
    /\ readResult = NoRead
    /\ encOps = [i \in PhotoIds |-> 0]
    /\ resume = NoResume
    /\ AppIdle
    /\ BackupIdle
    /\ ImportIdle

NextDelete ==
    \/ \E id \in DeleteAlbumIds : DeleteAlbumRead(id)
    \/ \E active \in BOOLEAN : DeleteAlbumCommit(active)

SpecDelete == InitDelete /\ [][NextDelete]_vars

\* The stored record read with the key of the stored configuration.
ReadBack(record) ==
    IF record.encrypted
    THEN decryptPhotoRecord(record, cryptoConfig.verifyData.key)
    ELSE [ok |-> TRUE, val |-> record]

\* C23: a call of deleteAlbum(id) that has returned did not throw, the album
\* is gone, no photo refers to it, every photo is in the other albums it was
\* in, and reads back with the payload it was stored with.
C23_DeleteAlbumCascades ==
    del.status \in {"done", "threw"} =>
        /\ del.status = "done"
        /\ del.id \notin DOMAIN albums
        /\ \A i \in DOMAIN photos :
               /\ del.id \notin photos[i].albumIds
               /\ photos[i].albumIds = orig[i].albumIds \cap DOMAIN albums
               /\ ReadBack(photos[i]).ok
               /\ ReadBack(photos[i]).val.blob = orig[i].blob
               /\ ReadBack(photos[i]).val.thumbnail = orig[i].thumbnail

----------------------------------------------------------------------------
(* SpecReminder: the key momento-last-backup, written by the export of the *)
(* settings menu, by performAutoBackup and by the backup reminder of the   *)
(* gallery.  The reminder is set by loadPhotos; the handlers of Spec end   *)
(* in loadPhotos too, and its effect on the reminder is followed here.     *)

REMINDER_DAYS == 7

\* shouldShowBackupReminder(photoCount), with the stored time (0: none) and
\* Date.now() as it reads them.
shouldShowBackupReminder(photoCount, last, now) ==
    IF photoCount = 0 THEN FALSE
    ELSE IF last = 0 THEN TRUE
    ELSE now - last > REMINDER_DAYS * 24 * 60 * 60 * 1000

\* loadPhotos with no album active: setShowBackupReminder(...).
LoadPhotos ==
    /\ LET data == getAllPhotos(photos, currentKey)
       IN  /\ data.ok
           /\ showBackupReminder' =
                 shouldShowBackupReminder(Cardinality(data.val), lastBackupIso, clock)
    /\ UNCHANGED <<storeVars, appVars, importVars, albumVars, pureVars>>
    /\ UNCHANGED <<clock, timers, pendingTimer, lastBackupTime, dirHandle, perm,
                   lastBackupIso, runs, manual, burst, lastSuccess>>

\* The first button of the reminder: it closes and the settings open.
OpenBackupSettings ==
    /\ showBackupReminder
    /\ showBackupReminder' = FALSE
    /\ UNCHANGED <<storeVars, appVars, importVars, albumVars, pureVars>>
    /\ UNCHANGED <<clock, timers, pendingTimer, lastBackupTime, dirHandle, perm,
                   lastBackupIso, runs, manual, burst, lastSuccess>>

\* The second button of the reminder: snoozeBackupReminder(), then it closes.
SnoozeBackupReminder ==
    /\ showBackupReminder
    /\ lastBackupIso' = clock
    /\ showBackupReminder' = FALSE
    /\ UNCHANGED <<storeVars, appVars, importVars, albumVars, pureVars>>
    /\ UNCHANGED <<clock, timers, pendingTimer, lastBackupTime, dirHandle, perm,
                   runs, manual, burst, lastSuccess>>

\* A gallery of up to MaxPhotos plaintext photos: never backed up, backed up
\* a moment ago, or backed up longer ago than the reminder waits.
InitReminder ==
    /\ \E S \in SUBSET PhotoIds :
        /\ orig = [i \in S |-> PlainRecord(i, {})]
        /\ photos = orig
    /\ albums = <<>>
    /\ cryptoConfig = NoConfig
    /\ currentKey = NoKey
    /\ mig = NoMig
    /\ readResult = NoRead
    /\ encOps = [i \in PhotoIds |-> 0]
    /\ resume = NoResume
    /\ AppIdle
    /\ ImportIdle
    /\ \E age \in {"never", "fresh", "old"} :
        /\ lastBackupIso = IF age = "never" THEN 0
                           ELSE IF age = "fresh" THEN Epoch - 1 ELSE Epoch
        /\ clock = IF age = "old"
                   THEN Epoch + REMINDER_DAYS * 24 * 60 * 60 * 1000 + 1
                   ELSE Epoch
    /\ timers = {}
    /\ pendingTimer = 0
    /\ lastBackupTime = 0
    /\ dirHandle = FALSE
    /\ perm = "prompt"
    /\ runs = [pc \in RunPcs |-> 0]
    /\ manual = "idle"
    /\ burst = NoBurst
    /\ lastSuccess = 0
    /\ ran = NoRan

NextReminder ==
    \/ LoadPhotos /\ ran' = NoRan
    \/ OpenBackupSettings /\ ran' = NoRan
    \/ SnoozeBackupReminder /\ ran' = NoRan
    \/ ExportData /\ ran' = NoRan
    \/ SetupAutoBackup /\ ran' = NoRan
    \/ DisableAutoBackup /\ ran' = NoRan
    \/ ManualBackup /\ ran' = NoRan
    \/ RunGetHandle("manual") /\ ran' = NoteGetHandle
    \/ \E answer \in Answers : RunVerify("manual", answer) /\ ran' = NoteVerify(answer)
    \/ \E ok \in BOOLEAN : RunExport("manual", ok) /\ ran' = NoteExport(ok)
    \/ \E outcome \in WriteOutcomes :
           RunWrite("manual", outcome) /\ ran' = NoteWrite(outcome)
    \/ Tick /\ ran' = NoRan

SpecReminder == InitReminder /\ [][NextReminder]_vars

\* C30: the stored last-backup time changes only in a step that completes a
\* backup: handleExport after exportData returned, or the file write of
\* performAutoBackup; no other step, dismissing the reminder included,
\* changes it.
C30_LastBackupOnlyByBackup ==
    [][lastBackupIso' # lastBackupIso =>
          \/ ran'.result = "true" /\ ran'.status = "done"
          \/ exp'.count = exp.count + 1 /\ exp'.status = "ok"]_vars
====
